---- MODULE Spec2Model ----
(***************************************************************************)
(* First-person movement controller of three-game-world-template:          *)
(* src/components/firstPersonSetup.js, the kinematic controller with the   *)
(* pendingJump latch (lines 189-666).                                      *)
(*                                                                         *)
(* Numbers are fixed-point: an integer n stands for the JavaScript number  *)
(* n / Scale.  The inputs (configurations, frame times, grids) are chosen  *)
(* so that every product and quotient the code forms is exact at this      *)
(* resolution, except the normalised diagonal direction 1/sqrt(2), which   *)
(* is Diag / Scale.  NaN and undefined are two reserved values.            *)
(* A Number carries a finite significand: the sums and the quotient of the *)
(* sampler's coordinate transform are rounded to Precision, a magnitude    *)
(* every other value of the model stays below.                             *)
(* The camera is never turned (mouse look belongs to PointerLockControls): *)
(* its right axis is +x and its forward axis is -z.                        *)
(***************************************************************************)
EXTENDS Integers, Sequences, FiniteSets, TLC

VARIABLES
    options,        \* the options bag and the camera position given at construction
    isLocked,       \* controls.isLocked
    lockRequested,  \* controls.lock() was called and the browser has not answered
    hintShown,      \* pointerHint.style.display is not "none"
    movement,       \* the record of initializeMovementState
    camera,         \* camera.position (controlsObject is the same object)
    capsule,        \* dynamicCapsule.position, when a capsule was passed
    lastOp,         \* history: the last listener or update that touched the lock or
                    \* the movement state: "init", "key", "lock", "unlock", "idle"
                    \* (update, lock not engaged), "frame", "jump" (a frame that jumped)
    lastSpace,      \* history: the most recent Space key-down since the last unlock:
                    \* "none", "stale" (lock not engaged), "ground" or "air" (engaged)
    run,            \* history: the scenario under way, its frames and its jumps
    probe,          \* result of the last ground-resolver query (resolver specification)
    body,           \* the physics body's vertical velocity and the last ground
                    \* correction made to it (physics mode, in thousandths)
    host,           \* the host page: the key flags of setupMovement, the velocity
                    \* of the capsule's body, and what its last frame did
    built,          \* one call of firstPersonSetup or createPlayer: its arguments
                    \* and what it returned
    jump            \* history: the jump latched last, whether forward was held
                    \* when it was latched, and what the frames since did

vars == <<options, isLocked, lockRequested, hintShown, movement, camera,
          capsule, lastOp, lastSpace, run, probe, body, host, built, jump>>

----------------------------------------------------------------------------
(* Numbers *)

Scale == 10
Diag == 7
NaN == -99999
Undefined == -99998

\* Bound of the model: the number of frames a scenario is followed for
MaxFrames == 3

\* magnitudes below Precision are exact; above it a Number keeps as many digits
Precision == 100000

\* v rounded to the nearest Number
Rnd(v) ==
    LET a == IF v < 0 THEN -v ELSE v
        unit == IF a < Precision THEN 1
                ELSE IF a < 10 * Precision THEN 10 ELSE 100
        r == ((a + unit \div 2) \div unit) * unit
    IN  IF v < 0 THEN -r ELSE r

\* the one element of a set of one
Only(S) == CHOOSE v \in S : TRUE

IsFinite(v) == v # NaN /\ v # Undefined

Abs(v) == IF v < 0 THEN -v ELSE v

Max(a, b) == IF a >= b THEN a ELSE b
Min(a, b) == IF a <= b THEN a ELSE b

\* a * b on fixed-point numbers
Mul(a, b) == (a * b) \div Scale

\* a ?? b
Nullish(a, b) == IF a = Undefined THEN b ELSE a

\* a + b where a may be NaN
AddN(a, b) == IF a = NaN \/ b = NaN THEN NaN ELSE a + b

\* a <= b where b may be NaN (a comparison with NaN is false)
LeqN(a, b) == a # NaN /\ b # NaN /\ a <= b

\* mutant: the value is passed on unclamped
Clamp_None(value, lo, hi) == value

\* THREE.MathUtils.clamp(value, min, max) = max(min, min(max, value))
Clamp(value, lo, hi) == Max(lo, Min(hi, value))

\* mutant: the weights are exchanged
Lerp_Swapped(x, y, t) ==
    IF x = NaN \/ y = NaN \/ t = NaN THEN NaN
    ELSE (t * x + (Scale - t) * y) \div Scale

\* THREE.MathUtils.lerp(x, y, t) = (1 - t) * x + t * y
Lerp(x, y, t) ==
    IF x = NaN \/ y = NaN \/ t = NaN THEN NaN
    ELSE ((Scale - t) * x + t * y) \div Scale

----------------------------------------------------------------------------
(* Terrain sampler and ground resolver *)

\* row[i] ?? dflt, with i counted from 0 as in the code
Cell(row, i, dflt) ==
    IF i + 1 \in DOMAIN row /\ row[i + 1] # Undefined THEN row[i + 1] ELSE dflt

\* grid[i] || dflt
RowOf(grid, i, dflt) == IF i + 1 \in DOMAIN grid THEN grid[i + 1] ELSE dflt

\* createTerrainSampler(data) returns a function (not null)
HasSampler(data) == data.kind = "grid"

\* (v + half) / step: the fractional grid coordinate of world coordinate v
GridCoord(v, half, step) == Rnd((Rnd(v + half) * Scale) \div step)

\* lines 250-253, 259-262: the fractional coordinate clamped to the grid of
\* count rows or columns (rows || 0, cellSize || 1)
ClampedCoord(v, half, cellSize, count) ==
    Clamp(GridCoord(v, half, IF cellSize = 0 THEN Scale ELSE cellSize),
          0, (Max(count, 1) - 1) * Scale)

\* lines 272-282: the heights of the four corners, blended by sx and sz
Bilinear(grid, ix0, iz0, ix1, iz1, sx, sz) ==
    LET row0 == RowOf(grid, iz0, <<>>)
        row1 == RowOf(grid, iz1, row0)
        h00 == Cell(row0, ix0, 0)
        h10 == Cell(row0, ix1, h00)
        h01 == Cell(row1, ix0, h00)
        h11 == Cell(row1, ix1, h01)
    IN  Lerp(Lerp(h00, h10, sx), Lerp(h01, h11, sx), sz)

\* lines 264-270: the cell and the weights of clamped fractional coordinates
Interpolate(data, clampedFx, clampedFz) ==
    Bilinear(data.grid,
             clampedFx \div Scale,
             clampedFz \div Scale,
             Min(clampedFx \div Scale + 1, Max(data.cols, 1) - 1),
             Min(clampedFz \div Scale + 1, Max(data.rows, 1) - 1),
             clampedFx - (clampedFx \div Scale) * Scale,
             clampedFz - (clampedFz \div Scale) * Scale)

\* the function createTerrainSampler returns, applied to (x, z)
TerrainSampler(data, x, z) ==
    IF ~IsFinite(x) \/ ~IsFinite(z) THEN NaN
    ELSE Only({ Interpolate(data, clampedFx, clampedFz) :
                  clampedFx \in {ClampedCoord(x, data.halfWidth, data.cellSizeX, data.cols)},
                  clampedFz \in {ClampedCoord(z, data.halfHeight, data.cellSizeZ, data.rows)} })

\* derivedBounds and terrainBounds of firstPersonSetup
TerrainBounds(opts) ==
    LET floor == opts.config.floorLevel
        data == opts.terrainData
        derived ==
            IF data.kind # "null"
            THEN [min |-> Nullish(data.min, floor), max |-> Nullish(data.max, floor)]
            ELSE [min |-> floor, max |-> floor]
        over == opts.terrainBounds
    IN  IF over.given
        THEN [min |-> Nullish(over.min, derived.min),
              max |-> Nullish(over.max, derived.max)]
        ELSE derived

\* fallbackHeight of createGroundResolver
FallbackHeight(terrainBounds, floorLevel) ==
    IF IsFinite(terrainBounds.max) THEN terrainBounds.max ELSE floorLevel

\* mutant: the sample is passed on without the Number.isFinite check
GroundSample_NoCheck(opts, x, z) ==
    IF ~HasSampler(opts.terrainData)
    THEN [height |-> FallbackHeight(TerrainBounds(opts), opts.config.floorLevel),
          isTerrain |-> FALSE]
    ELSE [height |-> TerrainSampler(opts.terrainData, x, z), isTerrain |-> TRUE]

\* groundResolver.sample(x, z)
GroundSample(opts, x, z) ==
    LET fallbackHeight == FallbackHeight(TerrainBounds(opts), opts.config.floorLevel)
    IN  IF ~HasSampler(opts.terrainData)
        THEN [height |-> fallbackHeight, isTerrain |-> FALSE]
        ELSE LET height == TerrainSampler(opts.terrainData, x, z)
             IN  IF IsFinite(height)
                 THEN [height |-> height, isTerrain |-> TRUE]
                 ELSE [height |-> fallbackHeight, isTerrain |-> FALSE]

----------------------------------------------------------------------------
(* Construction *)

\* { ...DEFAULT_CONFIG, ...configOverrides } for a player who jumps and cannot
\* walk: with both accelerations 0 the horizontal velocity stays 0, which keeps
\* the state space of all twelve key codes small
\* usePhysics is an override the hosts pass; it is absent (false) by default
BaseConfig ==
    [floorLevel |-> 0, playerHeight |-> 16, gravity |-> 10,
     walkAcceleration |-> 0, sprintAcceleration |-> 0,
     movementDamping |-> 10, jumpSpeed |-> 20, usePhysics |-> FALSE]

NoData ==
    [kind |-> "null", grid |-> <<>>, rows |-> 0, cols |-> 0,
     cellSizeX |-> 0, cellSizeZ |-> 0, halfWidth |-> 0, halfHeight |-> 0,
     min |-> Undefined, max |-> Undefined]

\* a height grid of three rows and two columns, one unit per cell, rising along z
SlopeData ==
    [kind |-> "grid", grid |-> << <<0, 0>>, <<10, 10>>, <<20, 20>> >>,
     rows |-> 3, cols |-> 2, cellSizeX |-> 10, cellSizeZ |-> 10,
     halfWidth |-> 5, halfHeight |-> 10, min |-> 0, max |-> 20]

NoBounds == [given |-> FALSE, min |-> Undefined, max |-> Undefined]

NoOffset == [x |-> 0, y |-> 0, z |-> 0]

\* the option bags firstPersonSetup is constructed with
Options ==
    { [config |-> BaseConfig, terrainBounds |-> NoBounds, terrainData |-> NoData,
       dynamicCapsule |-> FALSE, capsuleOffset |-> NoOffset,
       spawn |-> [x |-> 0, y |-> 0, z |-> 0]],
      [config |-> BaseConfig,
       terrainBounds |-> [given |-> TRUE, min |-> 0, max |-> 30],
       terrainData |-> NoData,
       dynamicCapsule |-> FALSE, capsuleOffset |-> NoOffset,
       spawn |-> [x |-> 0, y |-> 0, z |-> 0]],
      [config |-> [BaseConfig EXCEPT !.usePhysics = TRUE],
       terrainBounds |-> [given |-> TRUE, min |-> 0, max |-> 20],
       terrainData |-> SlopeData,
       dynamicCapsule |-> TRUE, capsuleOffset |-> [x |-> 0, y |-> -8, z |-> 0],
       spawn |-> [x |-> 0, y |-> 0, z |-> 0]] }

\* initializeMovementState()
InitializeMovementState ==
    [moveState |-> [forward |-> FALSE, backward |-> FALSE, left |-> FALSE,
                    right |-> FALSE, sprint |-> FALSE, jump |-> FALSE],
     velocity |-> [x |-> 0, y |-> 0, z |-> 0],
     direction |-> [x |-> 0, y |-> 0, z |-> 0],
     isGrounded |-> TRUE,
     pendingJump |-> FALSE,
     jumpBoost |-> FALSE]

\* velocity.set(0, 0, 0)
Zero == [x |-> 0, y |-> 0, z |-> 0]

\* every entry of moveState is false
NoKeyHeld(m) == \A k \in DOMAIN m.moveState : ~m.moveState[k]

\* mutant: the capsule is put where the camera is
CapsuleAt_NoOffset(opts, old, x, y, z) ==
    IF opts.dynamicCapsule THEN [x |-> x, y |-> y, z |-> z] ELSE old

\* what setCameraPosition(x, y, z) leaves in dynamicCapsule.position
CapsuleAt(opts, old, x, y, z) ==
    IF opts.dynamicCapsule
    THEN [x |-> x + opts.capsuleOffset.x, y |-> y + opts.capsuleOffset.y,
          z |-> z + opts.capsuleOffset.z]
    ELSE old

\* mutant: jumpBoost is left as it was
ResetJumpState_KeepBoost(m) == [m EXCEPT !.pendingJump = FALSE]

\* resetJumpState(movement)
ResetJumpState(m) == [m EXCEPT !.pendingJump = FALSE, !.jumpBoost = FALSE]

\* Scenarios followed by the history variable run:
\*   "press"    a Space key-down with the lock engaged and isGrounded = true,
\*              then frames only
\*   "release"  the same, the key released before the first frame, then frames only
\*   "rest"     an unlock, then no key event
\* and, for a player who can walk (walkAcceleration > 0):
\*   "forward"  a forward key-down with the lock engaged and the player at rest
\*              at the spawn point, then frames of one frame time (delta) only
\*   "walk"     movement keys pressed at rest at the spawn point before the
\*              first frame, then frames and key-ups
\*   "coast"    the last held key of a "forward" or "walk" released, then frames
\* n counts the frames since, ups those of them that applied a jump.
NoRun == [kind |-> "none", n |-> 0, ups |-> 0, delta |-> 0]
NoProbe == [asked |-> FALSE, x |-> 0, z |-> 0, height |-> 0, isTerrain |-> FALSE]

\* a body at rest that no frame has corrected
NoBody ==
    [velocityY |-> 0, corrected |-> FALSE, base |-> 0, deviation |-> 0,
     delta |-> 0, divisor |-> 0, term |-> 0]

\* the key flags setupMovement() returns
HostFlags ==
    [forward |-> FALSE, backward |-> FALSE, left |-> FALSE, right |-> FALSE,
     jump |-> FALSE, canJump |-> TRUE, sprint |-> FALSE]

\* no host page: the controller on its own.  A host has a capsule whose body
\* hands out its velocity (in thousandths) as a copy or as a view (live);
\* written is the horizontal velocity its last frame asked for, op what it
\* did last: "key", "frame", "jump" (a frame that applied a jump) or "idle"
NoHost ==
    [present |-> FALSE, live |-> FALSE, flags |-> HostFlags,
     velocity |-> [x |-> 0, y |-> 0, z |-> 0],
     written |-> [x |-> 0, z |-> 0], op |-> "none"]

\* no call under way: call is "firstPersonSetup" or "createPlayer", the
\* booleans say which arguments were passed, given which option keys, outcome
\* is "none", "error" or "controller", config the returned controller's config
NotBuilt ==
    [call |-> "none", camera |-> FALSE, renderer |-> FALSE, scene |-> FALSE,
     physics |-> FALSE, heightBounds |-> FALSE, given |-> {},
     outcome |-> "none", config |-> << >>]

\* no jump latched: phase is "latched" from a grounded Space key-down to the
\* frame that applies the jump, "air" from that frame to the first frame that
\* returns grounded, "landed" from then on; forward is moveState.forward at the
\* key-down; dz is what the frames since have added to velocity.z beyond what
\* they add without a jump; flown, whether a frame of it ended off the ground.
\* Followed for players who can walk.
NoJump == [phase |-> "none", forward |-> FALSE, dz |-> 0, flown |-> FALSE]

\* the state firstPersonSetup leaves when it returns, for an option bag of S,
\* on a page of hosts, with a further call of calls about to be made
ConstructedWith(S, hosts, calls) ==
    /\ options \in S
    /\ isLocked = FALSE
    /\ lockRequested = FALSE
    /\ hintShown = TRUE
    /\ movement = InitializeMovementState
    /\ LET spawnGround == GroundSample(options, options.spawn.x, options.spawn.z).height
           y == spawnGround + options.config.playerHeight
       IN  /\ camera = [x |-> options.spawn.x, y |-> y, z |-> options.spawn.z]
           /\ capsule = CapsuleAt(options, [x |-> 0, y |-> 0, z |-> 0],
                                  options.spawn.x, y, options.spawn.z)
    /\ lastOp = "init"
    /\ lastSpace = "none"
    /\ run = NoRun
    /\ probe = NoProbe
    /\ body = NoBody
    /\ host \in hosts
    /\ built \in calls
    /\ jump = NoJump

\* the same for the controller on its own
Constructed(S) == ConstructedWith(S, {NoHost}, {NotBuilt})

Init == Constructed(Options)

----------------------------------------------------------------------------
(* Input handler *)

Codes ==
    {"KeyW", "ArrowUp", "KeyS", "ArrowDown", "KeyA", "ArrowLeft", "KeyD",
     "ArrowRight", "ShiftLeft", "ShiftRight", "Space", "Other"}

\* The listener is bound on window and on the document, and on the render
\* surface too: one keyboard event reaches the handler two or three times.
Deliveries == {2, 3}

\* mutant: a press latches the jump whether or not the player is grounded
HandleSpace_Buffer(m, isPressed) ==
    LET held == [m EXCEPT !.moveState.jump = isPressed]
    IN  IF isPressed
        THEN [held EXCEPT !.pendingJump = TRUE, !.jumpBoost = held.moveState.forward]
        ELSE [held EXCEPT !.pendingJump = FALSE, !.jumpBoost = FALSE]

\* mutant: a release leaves the latch as it was
HandleSpace_NoClear(m, isPressed) ==
    LET held == [m EXCEPT !.moveState.jump = isPressed]
    IN  IF isPressed /\ held.isGrounded
        THEN [held EXCEPT !.pendingJump = TRUE, !.jumpBoost = held.moveState.forward]
        ELSE held

\* mutant: a grounded press flips the latch instead of setting it
HandleSpace_Toggle(m, isPressed) ==
    LET held == [m EXCEPT !.moveState.jump = isPressed]
    IN  IF isPressed
        THEN IF held.isGrounded
             THEN [held EXCEPT !.pendingJump = ~@,
                               !.jumpBoost = held.moveState.forward]
             ELSE held
        ELSE [held EXCEPT !.pendingJump = FALSE, !.jumpBoost = FALSE]

\* the Space case of the handler
HandleSpace(m, isPressed) ==
    LET held == [m EXCEPT !.moveState.jump = isPressed]
    IN  IF isPressed
        THEN IF held.isGrounded
             THEN [held EXCEPT !.pendingJump = TRUE,
                               !.jumpBoost = held.moveState.forward]
             ELSE held
        ELSE [held EXCEPT !.pendingJump = FALSE, !.jumpBoost = FALSE]

\* the function createInputHandler(movement) returns, applied to (event, isPressed)
HandleKey(m, code, isPressed) ==
    CASE code \in {"KeyW", "ArrowUp"} -> [m EXCEPT !.moveState.forward = isPressed]
      [] code \in {"KeyS", "ArrowDown"} -> [m EXCEPT !.moveState.backward = isPressed]
      [] code \in {"KeyA", "ArrowLeft"} -> [m EXCEPT !.moveState.left = isPressed]
      [] code \in {"KeyD", "ArrowRight"} -> [m EXCEPT !.moveState.right = isPressed]
      [] code \in {"ShiftLeft", "ShiftRight"} -> [m EXCEPT !.moveState.sprint = isPressed]
      [] code = "Space" -> HandleSpace(m, isPressed)
      [] OTHER -> m

\* the handler called once by each of n listeners
RECURSIVE Deliver(_, _, _, _)
Deliver(m, code, isPressed, n) ==
    IF n = 0 THEN m ELSE Deliver(HandleKey(m, code, isPressed), code, isPressed, n - 1)

----------------------------------------------------------------------------
(* Per-frame update *)

\* frame times handed to update(delta): none, and one second
Deltas == {0, Scale}

BoolNum(b) == IF b THEN Scale ELSE 0

\* direction after lines 522-526: raw components, normalised when nonzero
Direction(moveState) ==
    LET z == BoolNum(moveState.forward) - BoolNum(moveState.backward)
        x == BoolNum(moveState.right) - BoolNum(moveState.left)
        n(c) == IF c = 0 THEN 0 ELSE IF c > 0 THEN Diag ELSE -Diag
    IN  IF x # 0 /\ z # 0 THEN [x |-> n(x), y |-> 0, z |-> n(z)]
        ELSE [x |-> x, y |-> 0, z |-> z]

\* mutant: the grounded test is inverted
ApplyJump_Airborne(m, config) ==
    IF m.pendingJump /\ ~m.isGrounded
    THEN [m EXCEPT !.velocity.y = config.jumpSpeed, !.isGrounded = FALSE]
    ELSE m

\* mutant: the jump is half as strong
ApplyJump_Weak(m, config) ==
    IF m.pendingJump /\ m.isGrounded
    THEN [m EXCEPT !.velocity.y = config.jumpSpeed \div 2, !.isGrounded = FALSE]
    ELSE m

\* mutant: the boost follows the forward key as it is held in the frame
ApplyJump_LiveForward(m, config) ==
    IF m.pendingJump /\ m.isGrounded
    THEN LET up == [m EXCEPT !.velocity.y = config.jumpSpeed, !.isGrounded = FALSE]
         IN  IF m.moveState.forward
             THEN [up EXCEPT !.velocity.z = @ - Mul(config.walkAcceleration, 1)]
             ELSE up
    ELSE m

\* lines 540-546: the jump a latched, grounded player gets
ApplyJump(m, config) ==
    IF m.pendingJump /\ m.isGrounded
    THEN LET up == [m EXCEPT !.velocity.y = config.jumpSpeed, !.isGrounded = FALSE]
         IN  IF m.jumpBoost
             THEN [up EXCEPT !.velocity.z = @ - Mul(config.walkAcceleration, 1)]
             ELSE up
    ELSE m

\* mutant: a flat floor that holds the player up and never reports the ground
GroundClamp_Floating(opts, x, nextY, z, vy) ==
    LET config == opts.config
    IN  IF HasSampler(opts.terrainData)
        THEN Only({ IF IsFinite(surfaceHeight)
                       /\ nextY <= surfaceHeight + config.playerHeight
                    THEN [y |-> surfaceHeight + config.playerHeight,
                          vy |-> IF vy < 0 THEN 0 ELSE vy, isGrounded |-> TRUE]
                    ELSE [y |-> nextY, vy |-> vy, isGrounded |-> FALSE] :
                    surfaceHeight \in {TerrainSampler(opts.terrainData, x, z)} })
        ELSE LET minY == AddN(Nullish(TerrainBounds(opts).min, config.floorLevel),
                              config.playerHeight)
             IN  IF LeqN(nextY, minY)
                 THEN [y |-> minY, vy |-> 0, isGrounded |-> FALSE]
                 ELSE [y |-> nextY, vy |-> vy, isGrounded |-> FALSE]

\* mutant: the player is grounded wherever the camera is
GroundClamp_Sticky(opts, x, nextY, z, vy) ==
    [y |-> nextY, vy |-> vy, isGrounded |-> TRUE]

\* mutant: on sampled terrain a downward velocity survives the clamp
GroundClamp_KeepFalling(opts, x, nextY, z, vy) ==
    LET config == opts.config
    IN  IF HasSampler(opts.terrainData)
        THEN LET surfaceHeight == TerrainSampler(opts.terrainData, x, z)
                 targetY == surfaceHeight + config.playerHeight
             IN  IF IsFinite(surfaceHeight) /\ nextY <= targetY
                 THEN [y |-> targetY, vy |-> vy, isGrounded |-> TRUE]
                 ELSE [y |-> nextY, vy |-> vy, isGrounded |-> FALSE]
        ELSE LET minY == AddN(Nullish(TerrainBounds(opts).min, config.floorLevel),
                              config.playerHeight)
             IN  IF LeqN(nextY, minY)
                 THEN [y |-> minY, vy |-> 0, isGrounded |-> TRUE]
                 ELSE [y |-> nextY, vy |-> vy, isGrounded |-> FALSE]

\* lines 559-595: [y, vy, isGrounded] after the ground clamp at (x, nextY, z)
GroundClamp(opts, x, nextY, z, vy) ==
    LET config == opts.config
    IN  IF HasSampler(opts.terrainData)
        THEN Only({ IF IsFinite(surfaceHeight)
                       /\ nextY <= surfaceHeight + config.playerHeight
                    THEN [y |-> surfaceHeight + config.playerHeight,
                          vy |-> IF vy < 0 THEN 0 ELSE vy, isGrounded |-> TRUE]
                    ELSE [y |-> nextY, vy |-> vy, isGrounded |-> FALSE] :
                    surfaceHeight \in {TerrainSampler(opts.terrainData, x, z)} })
        ELSE LET minY == AddN(Nullish(TerrainBounds(opts).min, config.floorLevel),
                              config.playerHeight)
             IN  IF LeqN(nextY, minY)
                 THEN [y |-> minY, vy |-> 0, isGrounded |-> TRUE]
                 ELSE [y |-> nextY, vy |-> vy, isGrounded |-> FALSE]

\* mutant: no damping
Damp_None(v, damping, delta) == v

\* mutant: half the damping
Damp_Half(v, damping, delta) == v - Mul(Mul(v, damping), delta) \div 2

\* lines 518-519: v -= v * movementDamping * delta
Damp(v, damping, delta) == v - Mul(Mul(v, damping), delta)

\* lines 516-538: the movement record after damping and thrust
Steer(config, m, delta) ==
    LET vx1 == Damp(m.velocity.x, config.movementDamping, delta)
        vz1 == Damp(m.velocity.z, config.movementDamping, delta)
        dir == Direction(m.moveState)
        acceleration == IF m.moveState.sprint THEN config.sprintAcceleration
                        ELSE config.walkAcceleration
        vz2 == IF m.moveState.forward \/ m.moveState.backward
               THEN vz1 - Mul(Mul(dir.z, acceleration), delta) ELSE vz1
        vx2 == IF m.moveState.left \/ m.moveState.right
               THEN vx1 - Mul(Mul(dir.x, acceleration), delta) ELSE vx1
    IN  [m EXCEPT !.velocity.x = vx2, !.velocity.z = vz2, !.direction = dir]

\* lines 540-595: gravity, the step of the camera and the ground clamp, for the
\* record m1 that was steered and the record jumping that ApplyJump made of it
Fall(opts, m1, jumping, cam, delta) ==
    LET m2 == ResetJumpState(jumping)
        vy3 == m2.velocity.y - Mul(opts.config.gravity, delta)
        \* moveRight(-velocity.x * delta) along +x, moveForward(-velocity.z * delta) along -z
        x == cam.x - Mul(m2.velocity.x, delta)
        z == cam.z + Mul(m2.velocity.z, delta)
        nextY == cam.y + Mul(vy3, delta)
    IN  Only({ Only({ [movement |-> [m2 EXCEPT !.velocity.y = g.vy,
                                               !.isGrounded = g.isGrounded],
                       camera |-> [x |-> to.x, y |-> g.y, z |-> to.z],
                       jumped |-> jumping # m1] :
                      g \in {GroundClamp(opts, to.x, to.nextY, to.z, to.vy3)} }) :
               to \in {[x |-> x, z |-> z, nextY |-> nextY, vy3 |-> vy3]} })

\* updateKinematicMovement(delta): the movement record and camera position it leaves
UpdateKinematicMovement(opts, m, cam, delta) ==
    Only({ Fall(opts, m1, ApplyJump(m1, opts.config), cam, delta) :
           m1 \in {Steer(opts.config, m, delta)} })

----------------------------------------------------------------------------
(* Operations *)

\* mutant: every click asks for the lock
LockRequestAfterClick_Always(requested, locked) == TRUE

\* line 491: if (!controls.isLocked) controls.lock()
LockRequestAfterClick(requested, locked) == requested \/ ~locked

\* a click on the render surface (lines 489-492)
Click ==
    /\ lockRequested' = LockRequestAfterClick(lockRequested, isLocked)
    /\ UNCHANGED <<options, isLocked, hintShown, movement, camera, capsule,
                   lastOp, lastSpace, run, probe, body, host, built, jump>>

\* the browser grants the lock: the "lock" listener (lines 465-468)
Lock ==
    /\ lockRequested /\ ~isLocked
    /\ isLocked' = TRUE
    /\ lockRequested' = FALSE
    /\ hintShown' = FALSE
    /\ lastOp' = "lock"
    /\ run' = IF run.kind = "rest" THEN run ELSE NoRun
    /\ UNCHANGED <<options, movement, camera, capsule, lastSpace, probe, body,
                   host, built, jump>>

\* the browser refuses the lock: no listener of the controller runs
LockError ==
    /\ lockRequested /\ ~isLocked
    /\ lockRequested' = FALSE
    /\ UNCHANGED <<options, isLocked, hintShown, movement, camera, capsule,
                   lastOp, lastSpace, run, probe, body, host, built, jump>>

\* mutant: the velocity is not zeroed
UnlockMovement_KeepVelocity(m) ==
    [ResetJumpState(m) EXCEPT
        !.moveState = [forward |-> FALSE, backward |-> FALSE, left |-> FALSE,
                       right |-> FALSE, sprint |-> FALSE, jump |-> FALSE],
        !.isGrounded = TRUE]

\* what the "unlock" listener leaves in movement (lines 472-476, 486)
UnlockMovement(m) ==
    [ResetJumpState(m) EXCEPT
        !.moveState = [forward |-> FALSE, backward |-> FALSE, left |-> FALSE,
                       right |-> FALSE, sprint |-> FALSE, jump |-> FALSE],
        !.velocity = [x |-> 0, y |-> 0, z |-> 0],
        !.isGrounded = TRUE]

\* the lock is released: the "unlock" listener (lines 470-487)
Unlock ==
    /\ isLocked
    /\ isLocked' = FALSE
    /\ hintShown' = TRUE
    /\ movement' = UnlockMovement(movement)
    /\ LET unlockedGround == GroundSample(options, camera.x, camera.z).height
           y == unlockedGround + options.config.playerHeight
       IN  /\ camera' = [camera EXCEPT !.y = y]
           /\ capsule' = CapsuleAt(options, capsule, camera.x, y, camera.z)
    /\ lastOp' = "unlock"
    /\ lastSpace' = "none"
    /\ run' = [kind |-> "rest", n |-> 0, ups |-> 0, delta |-> 0]
    /\ jump' = NoJump
    /\ UNCHANGED <<options, lockRequested, probe, body, host, built>>

\* the player stands still at the spawn point with no key held
AtRest ==
    /\ movement.velocity = Zero /\ NoKeyHeld(movement) /\ movement.isGrounded
    /\ camera.x = options.spawn.x /\ camera.z = options.spawn.z

ForwardCodes == {"KeyW", "ArrowUp"}

\* the scenario under way after a key event
RunAfterKey(code, isPressed) ==
    LET after == HandleKey(movement, code, isPressed)
    IN  IF code = "Space"
        THEN IF isPressed /\ isLocked /\ movement.isGrounded
             THEN [kind |-> "press", n |-> 0, ups |-> 0, delta |-> 0]
             ELSE IF ~isPressed /\ run.kind = "press" /\ run.n = 0
             THEN [run EXCEPT !.kind = "release"]
             ELSE NoRun
        ELSE IF options.config.walkAcceleration = 0 \/ ~isLocked THEN NoRun
        ELSE IF after = movement /\ run.kind \in {"forward", "walk", "coast"} THEN run
        ELSE IF isPressed
        THEN IF AtRest \/ (run.kind \in {"forward", "walk"} /\ run.n = 0)
             THEN [kind |-> IF code \in ForwardCodes /\ NoKeyHeld(movement)
                            THEN "forward" ELSE "walk",
                   n |-> 0, ups |-> 0, delta |-> 0]
             ELSE NoRun
        ELSE IF run.kind \in {"forward", "walk"}
        THEN IF NoKeyHeld(after) THEN [run EXCEPT !.kind = "coast", !.delta = 0]
             ELSE [run EXCEPT !.kind = "walk", !.delta = 0]
        ELSE NoRun

\* the scenario under way after a locked update
RunAfterFrame(delta, jumped) ==
    IF run.kind # "none" /\ run.n < MaxFrames
    THEN LET counted == [run EXCEPT !.n = @ + 1,
                                    !.ups = @ + (IF jumped THEN 1 ELSE 0)]
         IN  IF run.kind # "forward" THEN counted
             ELSE IF run.n = 0 THEN [counted EXCEPT !.delta = delta]
             ELSE IF run.delta = delta THEN counted
             ELSE [counted EXCEPT !.kind = "walk", !.delta = 0]
    ELSE NoRun

\* the jump followed after a key event
JumpAfterKey(code, isPressed) ==
    IF options.config.walkAcceleration = 0 \/ code # "Space" THEN jump
    ELSE IF isPressed
    THEN IF movement.isGrounded
         THEN [phase |-> "latched", forward |-> movement.moveState.forward, dz |-> 0,
               flown |-> FALSE]
         ELSE jump
    ELSE IF jump.phase = "latched" THEN NoJump ELSE jump

\* the jump followed after a locked update that returned r and added dz to
\* velocity.z beyond what it adds without a jump
JumpAfterFrame(r, dz) ==
    IF options.config.walkAcceleration = 0 THEN jump
    ELSE IF r.jumped \/ jump.phase = "air"
    THEN [jump EXCEPT !.phase = IF r.movement.isGrounded THEN "landed" ELSE "air",
                      !.dz = @ + dz,
                      !.flown = jump.phase = "air" \/ ~r.movement.isGrounded]
    ELSE IF jump.phase = "landed" THEN [jump EXCEPT !.dz = @ + dz]
    ELSE NoJump

\* what the keydown (isPressed) or keyup listener of the controller does with
\* one event heard by n listeners (lines 494-506)
ControllerKey(code, isPressed, n) ==
    /\ movement' = Deliver(movement, code, isPressed, n)
    /\ lastOp' = "key"
    /\ lastSpace' = IF code = "Space" /\ isPressed
                    THEN IF ~isLocked THEN "stale"
                         ELSE IF movement.isGrounded THEN "ground" ELSE "air"
                    ELSE lastSpace
    /\ run' = RunAfterKey(code, isPressed)
    /\ jump' = JumpAfterKey(code, isPressed)
    /\ UNCHANGED <<options, isLocked, lockRequested, hintShown, camera, capsule,
                   probe, body, built>>

\* one keyboard event on a page that holds the controller only
KeyEvent(code, isPressed, n) ==
    /\ ControllerKey(code, isPressed, n)
    /\ UNCHANGED host

\* player.update(delta), lock engaged (lines 603-606)
UpdateLocked(delta) ==
    /\ isLocked
    /\ \E r \in {UpdateKinematicMovement(options, movement, camera, delta)},
          still \in {UpdateKinematicMovement(
                        options, [movement EXCEPT !.pendingJump = FALSE], camera, delta)} :
           /\ movement' = r.movement
           /\ camera' = r.camera
           /\ capsule' = CapsuleAt(options, capsule, r.camera.x, r.camera.y, r.camera.z)
           /\ lastOp' = IF r.jumped THEN "jump" ELSE "frame"
           /\ run' = RunAfterFrame(delta, r.jumped)
           /\ jump' = JumpAfterFrame(r, r.movement.velocity.z
                                            - still.movement.velocity.z)
    /\ UNCHANGED <<options, isLocked, lockRequested, hintShown, lastSpace, probe,
                   body, host, built>>

\* mutant: the direction is not zeroed
IdleMovement_KeepDirection(m) ==
    ResetJumpState([m EXCEPT !.velocity = [x |-> 0, y |-> 0, z |-> 0]])

\* what update leaves in movement when the lock is not engaged (lines 608-610)
IdleMovement(m) ==
    ResetJumpState([m EXCEPT !.velocity = [x |-> 0, y |-> 0, z |-> 0],
                             !.direction = [x |-> 0, y |-> 0, z |-> 0]])

\* player.update(delta), lock not engaged (lines 603-611)
UpdateIdle(delta) ==
    /\ ~isLocked
    /\ movement' = IdleMovement(movement)
    /\ lastOp' = "idle"
    /\ run' = IF run.kind = "rest" THEN run ELSE NoRun
    /\ jump' = NoJump
    /\ UNCHANGED <<options, isLocked, lockRequested, hintShown, camera, capsule,
                   lastSpace, probe, body, host, built>>

Update(delta) == UpdateLocked(delta) \/ UpdateIdle(delta)

\* player.collider: the capsule reference the controller exposes
Collider(opts) == "null"

\* player.usingPhysics
UsingPhysics(opts) == FALSE

Next ==
    \/ Click
    \/ Lock
    \/ LockError
    \/ Unlock
    \/ \E code \in Codes, isPressed \in BOOLEAN, n \in Deliveries :
          KeyEvent(code, isPressed, n)
    \/ \E delta \in Deltas : Update(delta)

Spec == Init /\ [][Next]_vars

----------------------------------------------------------------------------
(* Walking: a player with nonzero accelerations on flat ground, followed from *)
(* rest at the spawn point for MaxFrames frames.                              *)

\* walkAcceleration 8, sprintAcceleration 16
WalkConfig == [BaseConfig EXCEPT !.walkAcceleration = 80, !.sprintAcceleration = 160]

WalkOptions ==
    { [config |-> c, terrainBounds |-> NoBounds, terrainData |-> NoData,
       dynamicCapsule |-> FALSE, capsuleOffset |-> NoOffset,
       spawn |-> [x |-> 0, y |-> 0, z |-> 0]] :
        c \in { [WalkConfig EXCEPT !.gravity = 0],
                [WalkConfig EXCEPT !.movementDamping = 20] } }

WalkCodes == {"KeyW", "KeyD"}

\* frame times of half a second, one and two seconds
WalkDeltas == {5, 10, 20}

\* a frame of a scenario under way
WalkFrame(delta) ==
    /\ run.kind \in {"forward", "walk", "coast"}
    /\ run.n < MaxFrames
    /\ UpdateLocked(delta)

NextWalk ==
    \/ Click
    \/ Lock
    \/ Unlock
    \/ \E code \in WalkCodes, isPressed \in BOOLEAN : KeyEvent(code, isPressed, 2)
    \/ \E delta \in WalkDeltas : WalkFrame(delta)

SpecWalk == Constructed(WalkOptions) /\ [][NextWalk]_vars

----------------------------------------------------------------------------
(* Jumping while walking: a player with nonzero accelerations and gravity, on *)
(* flat ground and on a slope, who walks, jumps and lands within Reach of the *)
(* spawn point.                                                               *)

\* Bound of the model: the distance from the spawn point, along z, within which
\* frames are followed for a player who is not in a jump
Reach == 200

\* walkAcceleration 8, sprintAcceleration 16, gravity 1, movementDamping 1
JumpConfig == WalkConfig

\* flat ground, and the top of a slope that falls away ahead of the player
JumpOptions ==
    { [config |-> JumpConfig, terrainBounds |-> NoBounds, terrainData |-> NoData,
       dynamicCapsule |-> FALSE, capsuleOffset |-> NoOffset,
       spawn |-> [x |-> 0, y |-> 0, z |-> 0]],
      [config |-> JumpConfig, terrainBounds |-> NoBounds, terrainData |-> SlopeData,
       dynamicCapsule |-> FALSE, capsuleOffset |-> NoOffset,
       spawn |-> [x |-> 0, y |-> 0, z |-> 10]] }

JumpCodes == {"KeyW", "Space"}

\* a frame time of one second
JumpDeltas == {10}

\* a frame of a player in a jump, or within reach of the spawn point
JumpFrame(delta) ==
    /\ jump.phase = "air" \/ Abs(camera.z) <= Reach
    /\ UpdateLocked(delta)

NextJump ==
    \/ Click
    \/ Lock
    \/ Unlock
    \/ \E code \in JumpCodes, isPressed \in BOOLEAN : KeyEvent(code, isPressed, 2)
    \/ \E delta \in JumpDeltas : JumpFrame(delta)

SpecJump == Constructed(JumpOptions) /\ [][NextJump]_vars

\* the animation loop calls update in every frame for as long as the page lives
SpecLanding ==
    /\ Constructed(JumpOptions)
    /\ [][NextJump]_vars
    /\ WF_vars(\E delta \in JumpDeltas : JumpFrame(delta))

----------------------------------------------------------------------------
(* The controller whose input handler takes config (lines 1-187): Space jumps *)
(* at the key-down; there is no latch, no sampler and no capsule.             *)

\* the function createInputHandler(movement, config) returns (lines 55-93)
HandleKeyImmediate(m, config, code, isPressed) ==
    IF code # "Space" THEN HandleKey(m, code, isPressed)
    ELSE LET held == [m EXCEPT !.moveState.jump = isPressed]
             up == IF isPressed /\ held.isGrounded
                   THEN [held EXCEPT !.velocity.y = config.jumpSpeed,
                                     !.isGrounded = FALSE]
                   ELSE held
         IN  IF isPressed /\ up.isGrounded /\ up.moveState.forward
             THEN [up EXCEPT !.velocity.z = @ - Mul(config.walkAcceleration, 1)]
             ELSE up

\* lines 170-177: [y, vy, isGrounded] after the floor clamp
FloorClamp(config, y, vy) ==
    LET minY == config.floorLevel + config.playerHeight
    IN  IF y <= minY THEN [y |-> minY, vy |-> 0, isGrounded |-> TRUE]
        ELSE [y |-> y, vy |-> vy, isGrounded |-> FALSE]

\* update(delta) of this controller (lines 136-178)
UpdateImmediate(config, locked, m, cam, delta) ==
    LET vx1 == Damp(m.velocity.x, config.movementDamping, delta)
        vz1 == Damp(m.velocity.z, config.movementDamping, delta)
        dir == Direction(m.moveState)
        acceleration == IF m.moveState.sprint THEN config.sprintAcceleration
                        ELSE config.walkAcceleration
        vz2 == IF m.moveState.forward \/ m.moveState.backward
               THEN vz1 - Mul(Mul(dir.z, acceleration), delta) ELSE vz1
        vx2 == IF m.moveState.left \/ m.moveState.right
               THEN vx1 - Mul(Mul(dir.x, acceleration), delta) ELSE vx1
        vy2 == m.velocity.y - Mul(config.gravity, delta)
        moved == IF locked
                 THEN [velocity |-> [x |-> vx2, y |-> vy2, z |-> vz2],
                       direction |-> dir,
                       camera |-> [x |-> cam.x - Mul(vx2, delta),
                                   y |-> cam.y + Mul(vy2, delta),
                                   z |-> cam.z + Mul(vz2, delta)]]
                 ELSE [velocity |-> Zero, direction |-> m.direction, camera |-> cam]
        g == FloorClamp(config, moved.camera.y, moved.velocity.y)
    IN  [movement |-> [m EXCEPT !.velocity = [moved.velocity EXCEPT !.y = g.vy],
                                !.direction = moved.direction,
                                !.isGrounded = g.isGrounded],
         camera |-> [moved.camera EXCEPT !.y = g.y]]

\* one keydown or keyup event: the document's listener (lines 128-129)
KeyEventImmediate(code, isPressed) ==
    /\ movement' = HandleKeyImmediate(movement, options.config, code, isPressed)
    /\ lastOp' = "key"
    /\ UNCHANGED <<options, isLocked, lockRequested, hintShown, camera, capsule,
                   lastSpace, run, probe, body, host, built, jump>>

\* the "unlock" listener of this controller (lines 109-122)
UnlockImmediate ==
    /\ isLocked
    /\ isLocked' = FALSE
    /\ hintShown' = TRUE
    /\ movement' = [movement EXCEPT
                        !.moveState = InitializeMovementState.moveState,
                        !.velocity = Zero,
                        !.isGrounded = TRUE]
    /\ camera' = [camera EXCEPT
                     !.y = options.config.floorLevel + options.config.playerHeight]
    /\ lastOp' = "unlock"
    /\ UNCHANGED <<options, lockRequested, capsule, lastSpace, run, probe, body,
                   host, built, jump>>

\* update(delta), within reach of the spawn point
FrameImmediate(delta) ==
    /\ Abs(camera.z) <= Reach
    /\ LET r == UpdateImmediate(options.config, isLocked, movement, camera, delta)
       IN  /\ movement' = r.movement
           /\ camera' = r.camera
    /\ lastOp' = IF isLocked THEN "frame" ELSE "idle"
    /\ UNCHANGED <<options, isLocked, lockRequested, hintShown, capsule, lastSpace,
                   run, probe, body, host, built, jump>>

\* a flat world: this controller knows floorLevel only
ImmediateOptions == { o \in JumpOptions : ~HasSampler(o.terrainData) }

NextImmediate ==
    \/ Click
    \/ Lock
    \/ UnlockImmediate
    \/ \E code \in JumpCodes, isPressed \in BOOLEAN : KeyEventImmediate(code, isPressed)
    \/ \E delta \in JumpDeltas : FrameImmediate(delta)

SpecImmediate == Constructed(ImmediateOptions) /\ [][NextImmediate]_vars

----------------------------------------------------------------------------
(* The ground resolver on its own: option bags with partial, ragged and       *)
(* non-finite terrain data and bounds, queried at finite and non-finite       *)
(* coordinates.                                                               *)

\* terrainData whose grid is not an array: createTerrainSampler returns null
NoGridData == [NoData EXCEPT !.kind = "nogrid", !.min = -10, !.max = 40]

\* a grid with a non-finite height
HoleData == [SlopeData EXCEPT !.grid = << <<0, 0>>, <<NaN, 100>>, <<200, 200>> >>]

\* a grid shorter than rows and cols say, with an empty cell, and no max
RaggedData ==
    [SlopeData EXCEPT !.grid = << <<0, 100>>, <<Undefined, 100>> >>,
                      !.max = Undefined]

\* terrainData whose max is not a number
NaNMaxData == [NoGridData EXCEPT !.max = NaN]

ResolverBounds ==
    { NoBounds,
      [given |-> TRUE, min |-> 0, max |-> 30],
      [given |-> TRUE, min |-> 0, max |-> Undefined],
      [given |-> TRUE, min |-> 0, max |-> NaN] }

ResolverData == {NoData, NoGridData, SlopeData, HoleData, RaggedData, NaNMaxData}

ResolverOptions ==
    { [config |-> [BaseConfig EXCEPT !.floorLevel = f], terrainBounds |-> b,
       terrainData |-> d, dynamicCapsule |-> FALSE, capsuleOffset |-> NoOffset,
       spawn |-> [x |-> 0, y |-> 0, z |-> 0]] :
        f \in {0, -20}, b \in ResolverBounds, d \in ResolverData }

SampleCoords == {NaN, -30, -5, 0, 5, 30}

\* one call of groundResolver.sample(x, z)
Sample(x, z) ==
    /\ LET got == GroundSample(options, x, z)
       IN  probe' = [asked |-> TRUE, x |-> x, z |-> z,
                     height |-> got.height, isTerrain |-> got.isTerrain]
    /\ UNCHANGED <<options, isLocked, lockRequested, hintShown, movement, camera,
                   capsule, lastOp, lastSpace, run, body, host, built, jump>>

NextResolver == \E x \in SampleCoords, z \in SampleCoords : Sample(x, z)

SpecResolver == Constructed(ResolverOptions) /\ [][NextResolver]_vars

----------------------------------------------------------------------------
(* Frames over a grid with a non-finite height: a player who spawns where the *)
(* sample is not a number, and one who spawns where it is.                    *)

\* Bound of the model: the depth below the floor down to which frames are followed
Depth == 50

HoleOptions ==
    { [config |-> BaseConfig, terrainBounds |-> NoBounds, terrainData |-> HoleData,
       dynamicCapsule |-> FALSE, capsuleOffset |-> NoOffset,
       spawn |-> [x |-> 0, y |-> 0, z |-> z]] : z \in {-10, 0, 10} }

\* a frame of a player who has not fallen out of sight
HoleFrame(delta) ==
    /\ camera.y >= options.config.floorLevel - Depth
    /\ Update(delta)

NextHole ==
    \/ Click
    \/ Lock
    \/ Unlock
    \/ \E isPressed \in BOOLEAN, n \in Deliveries : KeyEvent("Space", isPressed, n)
    \/ \E delta \in Deltas : HoleFrame(delta)

SpecHole == Constructed(HoleOptions) /\ [][NextHole]_vars

----------------------------------------------------------------------------
(* The terrain sampler on its own: rows x cols grids sampled inside, on the   *)
(* vertices, and beyond every edge and corner.                                *)

\* a 3 x 3 grid of distinct heights whose cells are 2 wide and 1 deep
HillData ==
    [kind |-> "grid",
     grid |-> << <<0, 10, 40>>, <<20, 50, 30>>, <<70, 60, 90>> >>,
     rows |-> 3, cols |-> 3, cellSizeX |-> 20, cellSizeZ |-> 10,
     halfWidth |-> 20, halfHeight |-> 10, min |-> 0, max |-> 90]

\* a grid of one row
RidgeData ==
    [kind |-> "grid", grid |-> << <<30, -10, 20>> >>,
     rows |-> 1, cols |-> 3, cellSizeX |-> 10, cellSizeZ |-> 10,
     halfWidth |-> 10, halfHeight |-> 0, min |-> -10, max |-> 30]

\* a grid of one vertex
PointData ==
    [kind |-> "grid", grid |-> << <<30>> >>,
     rows |-> 1, cols |-> 1, cellSizeX |-> 10, cellSizeZ |-> 10,
     halfWidth |-> 0, halfHeight |-> 0, min |-> 30, max |-> 30]

SamplerData == {SlopeData, HillData, RidgeData, PointData}

SamplerOptions ==
    { [config |-> BaseConfig, terrainBounds |-> NoBounds, terrainData |-> d,
       dynamicCapsule |-> FALSE, capsuleOffset |-> NoOffset,
       spawn |-> [x |-> 0, y |-> 0, z |-> 0]] : d \in SamplerData }

SamplerCoords == {-400, -30, -20, -10, -5, 0, 5, 10, 20, 30, 400}

\* one call of the function createTerrainSampler returned
SampleTerrain(x, z) ==
    /\ LET height == TerrainSampler(options.terrainData, x, z)
       IN  probe' = [asked |-> TRUE, x |-> x, z |-> z,
                     height |-> height, isTerrain |-> IsFinite(height)]
    /\ UNCHANGED <<options, isLocked, lockRequested, hintShown, movement, camera,
                   capsule, lastOp, lastSpace, run, body, host, built, jump>>

NextSampler == \E x \in SamplerCoords, z \in SamplerCoords : SampleTerrain(x, z)

SpecSampler == Constructed(SamplerOptions) /\ [][NextSampler]_vars

\* a grid of two vertices a tenth apart whose origin lies far from (0, 0)
FarData ==
    [kind |-> "grid", grid |-> << <<0, 50>> >>,
     rows |-> 1, cols |-> 2, cellSizeX |-> 1, cellSizeZ |-> 10,
     halfWidth |-> 1000000, halfHeight |-> 0, min |-> 0, max |-> 50]

VertexOptions ==
    { [config |-> BaseConfig, terrainBounds |-> NoBounds, terrainData |-> d,
       dynamicCapsule |-> FALSE, capsuleOffset |-> NoOffset,
       spawn |-> [x |-> 0, y |-> 0, z |-> 0]] : d \in SamplerData \cup {FarData} }

VertexCoords == SamplerCoords \cup {-1000000, -999990}

NextVertex == \E x \in VertexCoords, z \in VertexCoords : SampleTerrain(x, z)

\* the sampler called on grids near and far from the origin
SpecVertex == Constructed(VertexOptions) /\ [][NextVertex]_vars

----------------------------------------------------------------------------
(* Construction on its own: cameras that start anywhere, over flat ground and *)
(* grids, with and without a capsule.                                         *)

SpawnBounds ==
    { NoBounds,
      [given |-> TRUE, min |-> 0, max |-> 0],
      [given |-> TRUE, min |-> 0, max |-> 30] }

SpawnOptions ==
    { [config |-> BaseConfig, terrainBounds |-> b, terrainData |-> d,
       dynamicCapsule |-> c,
       capsuleOffset |-> IF c THEN [x |-> 3, y |-> -8, z |-> 0] ELSE NoOffset,
       spawn |-> [x |-> x, y |-> y, z |-> z]] :
        b \in SpawnBounds, d \in {NoData, SlopeData, HillData, HoleData},
        c \in BOOLEAN, x \in {-10, 0, 5}, y \in {0, 50}, z \in {-10, 0, 5} }

NextSpawn == Click \/ Lock \/ LockError

SpecSpawn == Constructed(SpawnOptions) /\ [][NextSpawn]_vars

----------------------------------------------------------------------------
(* Physics mode, ground correction (section 4.6 step 5 of the design): the    *)
(* integrator of this mode is not among the sources.  Heights, frame times    *)
(* and velocities of this part are in thousandths.                            *)

Milli == 1000

\* the deviation below which the body is left alone: 0.02
CorrectionThreshold == 20

\* the least frame time the correction divides by: 0.016
MinStep == 16

\* the largest correction, per second: 10
MaxCorrection == 10000

\* a / b, a quotient of Numbers rounded towards zero
Quotient(a, b) == IF a < 0 THEN -((-a) \div b) ELSE a \div b

\* mutant: the correction is not clamped
CorrectionTerm_Unclamped(deviation, delta) ==
    IF Abs(deviation) > CorrectionThreshold
    THEN Quotient(deviation * Milli, Max(delta, MinStep))
    ELSE 0

\* the vertical velocity a frame adds for a height deviation
CorrectionTerm(deviation, delta) ==
    IF Abs(deviation) > CorrectionThreshold
    THEN Max(-MaxCorrection,
             Min(MaxCorrection, Quotient(deviation * Milli, Max(delta, MinStep))))
    ELSE 0

PhysicsOptions == { o \in Options : o.config.usePhysics }

\* vertical velocities read from the body, height deviations, frame times
BodyVelocities == {-5000, 0, 5000}
Deviations == {-300, -150, -21, -20, -10, 0, 10, 20, 21, 150, 300}
PhysicsDeltas == {0, 8, 16, 20, 32, 50, 100}

\* the ground correction of one locked frame in physics mode: base is the
\* vertical velocity read from the body, deviation its height deviation
PhysicsGroundCorrection(base, deviation, delta) ==
    /\ isLocked
    /\ LET term == CorrectionTerm(deviation, delta)
       IN  body' = [velocityY |-> base + term, corrected |-> TRUE, base |-> base,
                    deviation |-> deviation, delta |-> delta,
                    divisor |-> Max(delta, MinStep), term |-> term]
    /\ UNCHANGED <<options, isLocked, lockRequested, hintShown, movement, camera,
                   capsule, lastOp, lastSpace, run, probe, host, built, jump>>

NextPhysics ==
    \/ Click
    \/ Lock
    \/ \E base \in BodyVelocities, deviation \in Deviations, delta \in PhysicsDeltas :
          PhysicsGroundCorrection(base, deviation, delta)

SpecPhysics == Constructed(PhysicsOptions) /\ [][NextPhysics]_vars

----------------------------------------------------------------------------
(* The host page (src/unnamed/part_000, src/main.js): it keeps key flags of   *)
(* its own (setupMovement), drives the capsule's body from them in every      *)
(* frame with the lock engaged, and calls player.update in the other frames.  *)
(* The camera is not turned: forward is -z and right is +x.  The provider's   *)
(* step (physics.update) is followed by the vertical velocity it leaves.      *)

\* the vertical velocity a jump sets: 10
HostJumpSpeed == 10000

\* the vertical speed below which the body counts as resting: 0.05
JumpRest == 50

\* a Number of the controller in thousandths
ToMilli(v) == v * (Milli \div Scale)

\* the window listeners of setupMovement (lines 681-698)
HostKey(flags, code, isPressed) ==
    CASE code = "KeyW" -> [flags EXCEPT !.forward = isPressed]
      [] code = "KeyS" -> [flags EXCEPT !.backward = isPressed]
      [] code = "KeyA" -> [flags EXCEPT !.left = isPressed]
      [] code = "KeyD" -> [flags EXCEPT !.right = isPressed]
      [] code \in {"ShiftLeft", "ShiftRight"} -> [flags EXCEPT !.sprint = isPressed]
      [] code = "Space" ->
            IF isPressed
            THEN IF flags.canJump THEN [flags EXCEPT !.jump = TRUE] ELSE flags
            ELSE [flags EXCEPT !.jump = FALSE]
      [] OTHER -> flags

\* the horizontal velocity the frame asks for (part_000 lines 301-319)
Desired(flags, config) ==
    LET speed == IF flags.sprint THEN config.sprintAcceleration
                 ELSE config.walkAcceleration
        dir == Direction([forward |-> flags.forward, backward |-> flags.backward,
                          left |-> flags.left, right |-> flags.right])
    IN  [x |-> ToMilli(Mul(dir.x, speed)), z |-> ToMilli(Mul(-dir.z, speed))]

\* the body part of a frame with the lock engaged (part_000 lines 321-339):
\* flags and body velocity it leaves, what it asked for, whether it jumped
DriveBody(h, config) ==
    LET want == Desired(h.flags, config)
        read == h.velocity
        set1 == [x |-> want.x, y |-> read.y, z |-> want.z]
        cur1 == IF h.live THEN set1 ELSE read
        jumps == h.flags.jump /\ h.flags.canJump /\ Abs(cur1.y) < JumpRest
        set2 == IF jumps THEN [x |-> cur1.x, y |-> HostJumpSpeed, z |-> cur1.z]
                ELSE set1
        cur2 == IF h.live THEN set2 ELSE read
        disarmed == IF jumps THEN FALSE ELSE h.flags.canJump
        canJump == IF Abs(cur2.y) < JumpRest THEN TRUE ELSE disarmed
    IN  [flags |-> [h.flags EXCEPT !.canJump = canJump], velocity |-> set2,
         written |-> want, jumped |-> jumps]

\* a page with a capsule whose body hands out a copy, or a view
Hosts == { [NoHost EXCEPT !.present = TRUE, !.live = l] : l \in BOOLEAN }

\* the options of part_000 lines 152-164, for a player who can walk
HostOptions ==
    { [config |-> WalkConfig, terrainBounds |-> [given |-> TRUE, min |-> 0, max |-> 20],
       terrainData |-> SlopeData, dynamicCapsule |-> TRUE, capsuleOffset |-> NoOffset,
       spawn |-> [x |-> 0, y |-> 0, z |-> 0]] }

HostCodes == {"KeyW", "Space"}

\* vertical velocities the provider's step leaves
HostVelocities == {-5000, 0, 40, 9500}

\* one keyboard event: the controller's listeners and the host's hear it
HostKeyEvent(code, isPressed) ==
    /\ ControllerKey(code, isPressed, 2)
    /\ host' = [host EXCEPT !.flags = HostKey(@, code, isPressed), !.op = "key"]

\* animate(), lock engaged: the body is driven, the camera follows the
\* capsule, the provider steps, player.update is not called (lines 294-361)
AnimateLocked(vy) ==
    /\ isLocked
    /\ LET d == DriveBody(host, options.config)
       IN  host' = [host EXCEPT !.flags = d.flags,
                                !.velocity = [d.velocity EXCEPT !.y = vy],
                                !.written = d.written,
                                !.op = IF d.jumped THEN "jump" ELSE "frame"]
    /\ camera' = capsule
    /\ run' = IF run.kind = "rest" /\ run.n < MaxFrames
              THEN [run EXCEPT !.n = @ + 1] ELSE NoRun
    /\ UNCHANGED <<options, isLocked, lockRequested, hintShown, movement, capsule,
                   lastOp, lastSpace, probe, body, built, jump>>

\* animate(), lock not engaged: the provider steps and player.update runs
\* (lines 348-361); keepOnTerrain finds no position on the player
AnimateIdle(delta, vy) ==
    /\ ~isLocked
    /\ host' = [host EXCEPT !.velocity.y = vy, !.op = "idle"]
    /\ movement' = IdleMovement(movement)
    /\ lastOp' = "idle"
    /\ run' = IF run.kind = "rest" THEN run ELSE NoRun
    /\ jump' = NoJump
    /\ UNCHANGED <<options, isLocked, lockRequested, hintShown, camera, capsule,
                   lastSpace, probe, body, built>>

NextHost ==
    \/ Click
    \/ Lock
    \/ Unlock
    \/ \E code \in HostCodes, isPressed \in BOOLEAN : HostKeyEvent(code, isPressed)
    \/ \E vy \in HostVelocities : AnimateLocked(vy)
    \/ \E delta \in Deltas, vy \in HostVelocities : AnimateIdle(delta, vy)

SpecHost == ConstructedWith(HostOptions, Hosts, {NotBuilt}) /\ [][NextHost]_vars

----------------------------------------------------------------------------
(* Construction calls: firstPersonSetup and createPlayer called with and      *)
(* without each argument, and with option bags that omit keys.                *)

\* DEFAULT_CONFIG of the controller (lines 289-299)
DEFAULT_CONFIG ==
    [floorLevel |-> 0, playerHeight |-> 16, gravity |-> 280,
     walkAcceleration |-> 50, sprintAcceleration |-> 100,
     movementDamping |-> 120, jumpSpeed |-> 120,
     capsuleRadius |-> 4, capsuleMass |-> 800]

\* the options firstPersonSetup takes out of the bag before it merges the rest
NamedOptions == {"terrainBounds", "terrainData", "dynamicCapsule", "capsuleOffset"}

\* the values a caller passes for the keys it does not omit
OverrideValues ==
    [floorLevel |-> -20, walkAcceleration |-> 80, airControl |-> 2,
     terrainData |-> Undefined]

OverrideKeys == DOMAIN OverrideValues

\* the options bag of a caller who passes the keys of given
Bag(given) == [k \in given |-> OverrideValues[k]]

\* { ...a, ...b }
Merge(a, b) ==
    [k \in DOMAIN a \cup DOMAIN b |-> IF k \in DOMAIN b THEN b[k] ELSE a[k]]

\* configOverrides: the rest of the bag (lines 398-404)
ConfigOverrides(bag) == [k \in DOMAIN bag \ NamedOptions |-> bag[k]]

\* mutant: a missing camera goes unnoticed
SetupOutcome_Unchecked(cameraGiven, rendererGiven) == "controller"

\* firstPersonSetup returns a controller or throws: camera.position is read at
\* line 461; a missing renderer is replaced by document.body at line 428
SetupOutcome(cameraGiven, rendererGiven) ==
    IF cameraGiven THEN "controller" ELSE "error"

\* firstPersonSetup(camera, renderer, bag)
FirstPersonSetup(cameraGiven, rendererGiven, bag) ==
    LET outcome == SetupOutcome(cameraGiven, rendererGiven)
    IN  [outcome |-> outcome,
         config |-> IF outcome = "controller"
                    THEN Merge(DEFAULT_CONFIG, ConfigOverrides(bag)) ELSE << >>]

\* the bag createPlayer passes on (playerSetup.js lines 38-42, 117-128)
PlayerBag(bag) ==
    [floorLevel |-> IF "floorLevel" \in DOMAIN bag THEN bag.floorLevel ELSE 0,
     playerHeight |-> 16, gravity |-> 280, walkAcceleration |-> 50,
     sprintAcceleration |-> 100, movementDamping |-> 200, jumpSpeed |-> 200]

\* createPlayer(args): playerSetup.js lines 21-35, 117-130
CreatePlayer(args) ==
    IF ~args.scene \/ ~args.physics \/ ~args.heightBounds
          \/ ~args.camera \/ ~args.renderer
    THEN [outcome |-> "error", config |-> << >>]
    ELSE FirstPersonSetup(args.camera, args.renderer, PlayerBag(Bag(args.given)))

\* the arguments of a call about to be made
ConstructArgs ==
    { [NotBuilt EXCEPT !.camera = c, !.renderer = r, !.scene = s, !.physics = p,
                       !.heightBounds = h, !.given = g] :
        c \in BOOLEAN, r \in BOOLEAN, s \in BOOLEAN, p \in BOOLEAN,
        h \in BOOLEAN, g \in SUBSET OverrideKeys }

\* firstPersonSetup is called with the arguments of built
CallFirstPersonSetup ==
    /\ built.call = "none"
    /\ LET got == FirstPersonSetup(built.camera, built.renderer, Bag(built.given))
       IN  built' = [built EXCEPT !.call = "firstPersonSetup",
                                  !.outcome = got.outcome, !.config = got.config]
    /\ UNCHANGED <<options, isLocked, lockRequested, hintShown, movement, camera,
                   capsule, lastOp, lastSpace, run, probe, body, host, jump>>

\* createPlayer is called with the arguments of built
CallCreatePlayer ==
    /\ built.call = "none"
    /\ LET got == CreatePlayer(built)
       IN  built' = [built EXCEPT !.call = "createPlayer",
                                  !.outcome = got.outcome, !.config = got.config]
    /\ UNCHANGED <<options, isLocked, lockRequested, hintShown, movement, camera,
                   capsule, lastOp, lastSpace, run, probe, body, host, jump>>

NextConstruct == CallFirstPersonSetup \/ CallCreatePlayer

SpecConstruct ==
    ConstructedWith(SamplerOptions, {NoHost}, ConstructArgs) /\ [][NextConstruct]_vars

----------------------------------------------------------------------------
(* Properties *)

Latched(m) == <<m.pendingJump, m.jumpBoost>>

\* C1: with the lock engaged and the player grounded, a Space key-down followed
\* by N >= 1 frames and no other event gives exactly one frame that sets
\* velocity.y to jumpSpeed, and pendingJump is false after the first frame.
C1_JumpLatchSingleShot ==
    (run.kind = "press" /\ run.n >= 1) =>
        (run.ups = 1 /\ ~movement.pendingJump)

C1_Witness == run.kind = "press" /\ run.n = MaxFrames /\ run.ups = 1

\* C2: whenever an update call has returned, with the lock engaged or not,
\* pendingJump and jumpBoost are both false.
C2_LatchIsAnEdge ==
    lastOp \in {"idle", "frame", "jump"} =>
        (~movement.pendingJump /\ ~movement.jumpBoost)

C2_Witness == lastOp = "jump" /\ movement.moveState.forward

\* C3: the unlock event leaves velocity (0,0,0), every held key false,
\* pendingJump and jumpBoost false and isGrounded true.
C3_UnlockResets ==
    lastOp = "unlock" =>
        /\ movement.velocity = Zero
        /\ \A k \in DOMAIN movement.moveState : ~movement.moveState[k]
        /\ ~movement.pendingJump /\ ~movement.jumpBoost
        /\ movement.isGrounded

C3_Witness == lastOp = "unlock" /\ movement.direction.z # 0 /\ movement.direction.x # 0

\* C4 (as claimed): after an unlock, and for as long as no key event arrives
\* (the lock re-engaged, frames run), the camera stays at ground height +
\* playerHeight at its (x, z) and isGrounded stays true, in every terrain
\* configuration.
C4_RestsOnGround ==
    run.kind = "rest" =>
        /\ movement.isGrounded
        /\ camera.y = GroundSample(options, camera.x, camera.z).height
                        + options.config.playerHeight

\* C5: an update with the lock not engaged leaves velocity and direction
\* (0,0,0) and the jump latch clear, and moves neither camera nor capsule nor
\* changes isGrounded.
C5_IdleUpdate ==
    [][lastOp' = "idle" =>
          /\ movement'.velocity = Zero
          /\ movement'.direction = Zero
          /\ ~movement'.pendingJump /\ ~movement'.jumpBoost
          /\ camera' = camera
          /\ capsule' = capsule
          /\ movement'.isGrounded = movement.isGrounded
          /\ movement'.moveState = movement.moveState]_vars

C5_Witness ==
    lastOp = "idle" /\ movement.moveState.jump /\ movement.moveState.forward

\* C6 (as claimed): a frame applies a jump only if a Space key-down arrived
\* after the lock was engaged; a key-down delivered while unlocked never
\* causes one.
C6_NoJumpFromUnlockedKey == lastOp = "jump" => lastSpace \in {"ground", "air"}

\* C7: a Space key-down while isGrounded is false leaves pendingJump and
\* jumpBoost as they were, and no frame applies a jump while the most recent
\* Space key-down is an airborne one, landing with Space held included.
C7_NoJumpBuffering ==
    /\ ~movement.isGrounded =>
          Latched(HandleKey(movement, "Space", TRUE)) = Latched(movement)
    /\ lastOp = "jump" => lastSpace # "air"

C7_Witness ==
    /\ lastSpace = "air" /\ lastOp = "frame"
    /\ movement.isGrounded /\ movement.moveState.jump

\* C8: a Space key-up clears pendingJump and jumpBoost whatever the state, and
\* when Space is pressed (grounded) and released before the next frame, the
\* frames that follow apply no jump.
C8_ReleaseCancels ==
    /\ Latched(HandleKey(movement, "Space", FALSE)) = <<FALSE, FALSE>>
    /\ (run.kind = "release" /\ run.n >= 1) => run.ups = 0

C8_Witness == run.kind = "release" /\ run.n >= 1 /\ movement.isGrounded

\* C9: for every key code and pressed flag, the handler called two or three
\* times with the same event leaves the movement state it leaves when called once.
C9_KeyIdempotent ==
    \A code \in Codes, isPressed \in BOOLEAN, n \in Deliveries :
        Deliver(movement, code, isPressed, n) = HandleKey(movement, code, isPressed)

C9_Witness ==
    /\ lastOp = "key" /\ movement.pendingJump /\ movement.jumpBoost
    /\ movement.moveState.sprint /\ ~movement.moveState.left

\* C10: sample(x, z) returns a finite height; it is the terrain sample, with
\* isTerrain = true, exactly when a sampler exists and its sample is finite,
\* and otherwise terrainBounds.max, or floorLevel when that is absent, with
\* isTerrain = false.
C10_ResolverFinite ==
    probe.asked =>
        LET data == options.terrainData
            terrain == HasSampler(data) /\ IsFinite(TerrainSampler(data, probe.x, probe.z))
            bound == TerrainBounds(options).max
        IN  /\ IsFinite(probe.height)
            /\ probe.isTerrain = terrain
            /\ terrain => probe.height = TerrainSampler(data, probe.x, probe.z)
            /\ ~terrain => probe.height =
                              IF bound \in {NaN, Undefined}
                              THEN options.config.floorLevel ELSE bound

C10_Witness ==
    /\ probe.asked /\ IsFinite(probe.x) /\ IsFinite(probe.z)
    /\ HasSampler(options.terrainData) /\ ~probe.isTerrain

\* the world coordinate of grid column (or row) i, as a caller computes it
VertexAt(i, cellSize, half) == Rnd(Rnd(i * cellSize) - half)

\* the heights stored in a grid
GridHeights(data) ==
    { data.grid[r][c] : r \in 1..data.rows, c \in 1..data.cols }

\* C11: the sampler's result at a finite (x, z) is its result at the point
\* clamped to the grid's extent; beyond a corner it is the corner's height, and
\* it never leaves the range of the stored heights.
C11_SamplerClamps ==
    probe.asked =>
        LET d == options.terrainData
            xLo == VertexAt(0, d.cellSizeX, d.halfWidth)
            xHi == VertexAt(d.cols - 1, d.cellSizeX, d.halfWidth)
            zLo == VertexAt(0, d.cellSizeZ, d.halfHeight)
            zHi == VertexAt(d.rows - 1, d.cellSizeZ, d.halfHeight)
            cx == Max(xLo, Min(xHi, probe.x))
            cz == Max(zLo, Min(zHi, probe.z))
        IN  /\ probe.height = TerrainSampler(d, cx, cz)
            /\ (probe.x <= xLo /\ probe.z <= zLo) => probe.height = d.grid[1][1]
            /\ (probe.x >= xHi /\ probe.z <= zLo) => probe.height = d.grid[1][d.cols]
            /\ (probe.x <= xLo /\ probe.z >= zHi) => probe.height = d.grid[d.rows][1]
            /\ (probe.x >= xHi /\ probe.z >= zHi) => probe.height = d.grid[d.rows][d.cols]
            /\ \E lo \in GridHeights(d), hi \in GridHeights(d) :
                  lo <= probe.height /\ probe.height <= hi

C11_Witness ==
    /\ probe.asked /\ options.terrainData = HillData
    /\ probe.x = 400 /\ probe.z = -400 /\ probe.height = 40

\* C12 (as claimed): sampling at the world point of a vertex (row r, column c)
\* returns grid[r][c], on the last row and the last column too, for every grid.
C12_VertexExact ==
    probe.asked =>
        LET d == options.terrainData
        IN  \A r \in 0..(d.rows - 1), c \in 0..(d.cols - 1) :
                (/\ probe.x = VertexAt(c, d.cellSizeX, d.halfWidth)
                 /\ probe.z = VertexAt(r, d.cellSizeZ, d.halfHeight))
                    => probe.height = d.grid[r + 1][c + 1]

\* C12 (amended): sampling at a world point whose fractional grid coordinates
\* evaluate to exactly (c, r) returns grid[r][c], on the last row and the last
\* column too; the world point of a vertex is such a point when the arithmetic
\* of its coordinates is exact.
C12_VertexExactWhenRepresentable ==
    probe.asked =>
        LET d == options.terrainData
        IN  \A r \in 0..(d.rows - 1), c \in 0..(d.cols - 1) :
                (/\ GridCoord(probe.x, d.halfWidth, d.cellSizeX) = c * Scale
                 /\ GridCoord(probe.z, d.halfHeight, d.cellSizeZ) = r * Scale)
                    => probe.height = d.grid[r + 1][c + 1]

C12_Witness ==
    /\ probe.asked /\ options.terrainData = HillData
    /\ probe.x = VertexAt(2, 20, 20) /\ probe.z = VertexAt(2, 10, 10)
    /\ probe.height = 90

\* C14 (as claimed): a locked update that starts with isGrounded = true on flat
\* terrain (no sampler) and no key held leaves camera.y unchanged and returns
\* with velocity.y = 0 and isGrounded = true, for every delta >= 0.
C14_GroundClampStable ==
    [][\A delta \in Deltas :
          (/\ UpdateLocked(delta)
           /\ ~HasSampler(options.terrainData)
           /\ movement.isGrounded /\ NoKeyHeld(movement))
              => (/\ camera'.y = camera.y
                  /\ movement'.velocity.y = 0
                  /\ movement'.isGrounded)]_vars

\* C17 (as claimed): when the update that applies a latched jump returns,
\* velocity.y is jumpSpeed, for every delta.
C17_JumpFrameVelocity ==
    [][\A delta \in Deltas :
          (UpdateLocked(delta) /\ lastOp' = "jump")
              => movement'.velocity.y = options.config.jumpSpeed]_vars

\* C17 (amended): the update that applies a latched jump sets velocity.y to
\* jumpSpeed and then applies gravity and the ground clamp: it returns with
\* velocity.y = jumpSpeed - gravity * delta when the player is left airborne,
\* and otherwise with what the clamp leaves: 0 on flat ground, the same value
\* with a negative one replaced by 0 on sampled terrain.
C17_JumpFrameVelocityAfterGravity ==
    [][\A delta \in Deltas :
          (UpdateLocked(delta) /\ lastOp' = "jump")
              => LET v == options.config.jumpSpeed
                            - Mul(options.config.gravity, delta)
                 IN  movement'.velocity.y =
                        IF ~movement'.isGrounded THEN v
                        ELSE IF HasSampler(options.terrainData)
                             THEN Max(v, 0) ELSE 0]_vars

C17_Witness ==
    /\ lastOp = "jump" /\ ~movement.isGrounded
    /\ movement.velocity.y = options.config.jumpSpeed - options.config.gravity
    /\ movement.velocity.y # options.config.jumpSpeed

\* C18: an update returns with isGrounded = true only if the height it
\* integrated (camera.y + velocity.y * delta, after jump and gravity) is at or
\* below ground height + playerHeight at the new position; an update whose
\* integrated height is above it returns with isGrounded = false.
C18_GroundedOnlyAtGround ==
    [][\A delta \in Deltas :
          UpdateLocked(delta) =>
              LET config == options.config
                  vy == ApplyJump(movement, config).velocity.y
                            - Mul(config.gravity, delta)
                  nextY == camera.y + Mul(vy, delta)
                  ground == GroundSample(options, camera'.x, camera'.z).height
              IN  movement'.isGrounded => nextY <= ground + config.playerHeight]_vars

\* a landing on sampled terrain: the third frame after the jump, or a later one
C18_Witness ==
    /\ HasSampler(options.terrainData)
    /\ run.kind = "press" /\ run.n >= 3 /\ run.ups = 1
    /\ lastOp = "frame" /\ movement.isGrounded /\ movement.velocity.y = 0

\* the square of the horizontal speed
Speed2(m) == m.velocity.x * m.velocity.x + m.velocity.z * m.velocity.z

\* C13 (as claimed, for a player who moves): with no key held and gravity 0, a
\* locked update(delta) with delta > 0 and movementDamping > 0 leaves the
\* horizontal speed strictly below what it was.
C13_DampingContracts ==
    [][\A delta \in WalkDeltas :
          (/\ UpdateLocked(delta)
           /\ NoKeyHeld(movement) /\ options.config.gravity = 0
           /\ delta > 0 /\ options.config.movementDamping > 0
           /\ Speed2(movement) > 0)
              => Speed2(movement') < Speed2(movement)]_vars

\* the decrement of a nonzero velocity component is not lost to rounding
DampingActs(v, damping, delta) == v # 0 => Mul(Mul(v, damping), delta) # 0

\* C13 (amended): with no key held and gravity 0, a locked update(delta) with
\* 0 < movementDamping * delta < 2 leaves a nonzero horizontal speed strictly
\* below what it was (as long as the decrement is not lost to rounding); with
\* movementDamping * delta = 2 the speed is unchanged, and above 2 it grows.
C13_DampingContractsBelowTwo ==
    [][\A delta \in WalkDeltas :
          (/\ UpdateLocked(delta)
           /\ NoKeyHeld(movement) /\ options.config.gravity = 0
           /\ Speed2(movement) > 0
           /\ DampingActs(movement.velocity.x, options.config.movementDamping, delta)
           /\ DampingActs(movement.velocity.z, options.config.movementDamping, delta))
              => LET k == Mul(options.config.movementDamping, delta)
                 IN  /\ (0 < k /\ k < 2 * Scale) => Speed2(movement') < Speed2(movement)
                     /\ k = 2 * Scale => Speed2(movement') = Speed2(movement)
                     /\ k > 2 * Scale => Speed2(movement') > Speed2(movement)]_vars

\* a coasting frame has left a lower, nonzero speed along both axes
C13_Witness ==
    /\ run.kind = "coast" /\ run.n >= 2 /\ lastOp = "frame"
    /\ options.config.gravity = 0 /\ NoKeyHeld(movement)
    /\ movement.velocity.x = -14 /\ movement.velocity.z = -14

\* a frame of a "forward" scenario at a frame time with
\* 0 < movementDamping * delta <= limit
ForwardFrame(limit) ==
    /\ run.kind = "forward" /\ run'.kind = "forward" /\ run'.n = run.n + 1
    /\ 0 < Mul(options.config.movementDamping, run'.delta)
    /\ Mul(options.config.movementDamping, run'.delta) <= limit

\* C15 (as claimed): from rest, with only the forward key held and frames of
\* one delta with 0 < movementDamping * delta <= 1, |velocity.z| increases on
\* every frame and never exceeds walkAcceleration / movementDamping.
C15_ForwardSpeedBelowEquilibrium ==
    [][ForwardFrame(Scale) =>
          /\ Abs(movement'.velocity.z) > Abs(movement.velocity.z)
          /\ Abs(movement'.velocity.z) * options.config.movementDamping
                <= options.config.walkAcceleration * Scale]_vars

\* C15 (amended): ... with 0 < movementDamping * delta <= 1, |velocity.z| never
\* decreases and never exceeds walkAcceleration / movementDamping; with
\* movementDamping * delta < 1 it increases on every frame, and with
\* movementDamping * delta = 1 it is walkAcceleration / movementDamping from
\* the first frame on.
C15_ForwardSpeedApproachesEquilibrium ==
    [][ForwardFrame(Scale) =>
          LET k == Mul(options.config.movementDamping, run'.delta)
              limit == options.config.walkAcceleration * Scale
              speed == Abs(movement.velocity.z)
              speedAfter == Abs(movement'.velocity.z)
          IN  /\ speedAfter >= speed
              /\ speedAfter * options.config.movementDamping <= limit
              /\ k < Scale => speedAfter > speed
              /\ k = Scale => speedAfter * options.config.movementDamping = limit]_vars

C15_Witness ==
    /\ run.kind = "forward" /\ run.n = MaxFrames
    /\ Mul(options.config.movementDamping, run.delta) < Scale
    /\ movement.velocity.z < 0 /\ movement.velocity.x = 0

\* C16: construction leaves the camera at its initial x and z and at
\* y = h + playerHeight, h the ground height there (the terrain sample when
\* there is a finite one, else terrainBounds.max, else floorLevel), and the
\* capsule, when one was passed, at that point plus capsuleOffset; in a flat
\* world with terrainBounds {min: 0, max: 0} and playerHeight 1.6, y is 1.6.
C16_SpawnOnGround ==
    lastOp = "init" =>
        LET d == options.terrainData
            x == options.spawn.x
            z == options.spawn.z
            bounds == TerrainBounds(options)
            sampled == HasSampler(d) /\ IsFinite(TerrainSampler(d, x, z))
            h == IF sampled THEN TerrainSampler(d, x, z)
                 ELSE IF IsFinite(bounds.max) THEN bounds.max
                 ELSE options.config.floorLevel
            y == h + options.config.playerHeight
        IN  /\ camera = [x |-> x, y |-> y, z |-> z]
            /\ options.dynamicCapsule =>
                  capsule = [x |-> x + options.capsuleOffset.x,
                             y |-> y + options.capsuleOffset.y,
                             z |-> z + options.capsuleOffset.z]
            /\ (~HasSampler(d) /\ bounds = [min |-> 0, max |-> 0]
                    /\ options.config.playerHeight = 16) => camera.y = 16

C16_Witness ==
    /\ lastOp = "init" /\ options.dynamicCapsule
    /\ options.terrainData = HillData /\ options.spawn = [x |-> 5, y |-> 50, z |-> 5]
    /\ camera.y # options.spawn.y /\ camera.y # options.config.playerHeight
    /\ capsule.x = 8

\* C19 (as claimed): a controller constructed with a physics body (usePhysics
\* or a capsule in the options) reports physics mode, exposes the capsule, and
\* its locked updates are not steps of the kinematic integrator; a controller
\* constructed without one is kinematic and exposes null.
C19_DispatchOnMode ==
    LET attached == options.config.usePhysics \/ options.dynamicCapsule
    IN  /\ UsingPhysics(options) = attached
        /\ (Collider(options) = "null") = ~attached
        /\ attached => lastOp \notin {"frame", "jump"}

\* C20: in physics mode a deviation of more than 0.02 adds
\* deviation / max(delta, 0.016), clamped to [-10, 10], to the vertical
\* velocity, and a smaller one adds nothing; the divisor is never zero, delta = 0
\* included; a deviation of 0.3 at delta = 0.016 adds 10.
C20_CorrectionTerm ==
    body.corrected =>
        LET raw == Quotient(body.deviation * Milli, body.divisor)
        IN  /\ body.divisor > 0
            /\ body.divisor = IF body.delta > MinStep THEN body.delta ELSE MinStep
            /\ body.velocityY = body.base + body.term
            /\ Abs(body.deviation) <= CorrectionThreshold => body.term = 0
            /\ Abs(body.deviation) > CorrectionThreshold =>
                  /\ Abs(raw) <= MaxCorrection => body.term = raw
                  /\ raw > MaxCorrection => body.term = MaxCorrection
                  /\ raw < -MaxCorrection => body.term = -MaxCorrection
            /\ (body.deviation = 300 /\ body.delta = 16) => body.term = 10000

C20_Witness ==
    /\ body.corrected /\ body.deviation = 300 /\ body.delta = 0
    /\ body.term = MaxCorrection /\ body.velocityY = 5000 + MaxCorrection

\* C21 (as claimed): a call of the controller's constructor without a camera,
\* or without a render surface, ends with an error and returns no controller;
\* a call with both returns one, whatever options are omitted.
C21_CameraAndSurfaceRequired ==
    built.call = "firstPersonSetup" =>
        built.outcome = IF built.camera /\ built.renderer THEN "controller"
                        ELSE "error"

\* C21 (amended): firstPersonSetup without a camera ends with an error and
\* returns no controller; with a camera it returns one, with or without a
\* render surface (document.body takes its place) and whatever options are
\* omitted.  createPlayer ends with an error when scene, physics, heightBounds,
\* camera or renderer is missing, and returns a controller otherwise.
C21_CameraRequired ==
    /\ built.call = "firstPersonSetup" =>
          built.outcome = IF built.camera THEN "controller" ELSE "error"
    /\ built.call = "createPlayer" =>
          built.outcome =
              IF /\ built.scene /\ built.physics /\ built.heightBounds
                 /\ built.camera /\ built.renderer
              THEN "controller" ELSE "error"
    /\ built.outcome = "error" => built.config = << >>

C21_Witness ==
    /\ built.call = "firstPersonSetup" /\ built.outcome = "error"
    /\ ~built.camera /\ built.renderer /\ built.given = {}

\* the defaults the documentation gives
DocumentedDefaults ==
    [floorLevel |-> 0, playerHeight |-> 16, gravity |-> 280,
     walkAcceleration |-> 500, sprintAcceleration |-> 4500,
     movementDamping |-> 120, jumpSpeed |-> 120,
     capsuleRadius |-> 4, capsuleMass |-> 800, airControl |-> 3]

\* C22 (as claimed): the config of a controller built by firstPersonSetup holds
\* the documented default for every key the caller omitted and the caller's
\* value for every key passed.
C22_DocumentedDefaults ==
    (built.call = "firstPersonSetup" /\ built.outcome = "controller") =>
        \A k \in DOMAIN DocumentedDefaults :
            /\ k \in DOMAIN built.config
            /\ built.config[k] = IF k \in built.given THEN OverrideValues[k]
                                 ELSE DocumentedDefaults[k]

\* C23: over every sequence of clicks, locks and unlocks from the initial
\* state the hint is shown exactly when the lock is not engaged; a click asks
\* for the lock only when it is not engaged; the lock is released only by the
\* browser's unlock event, never by a click, a key or an update.
C23_HintFollowsLock ==
    /\ [](hintShown = ~isLocked)
    /\ [][/\ (lockRequested' /\ ~lockRequested) => ~isLocked
          /\ (isLocked /\ lockRequested' # lockRequested) => ~lockRequested'
          /\ (isLocked /\ ~isLocked') => (lastOp' = "unlock" /\ hintShown')
          /\ lastOp' \in {"key", "idle", "frame", "jump"} => isLocked' = isLocked]_vars

\* a click after the lock was engaged and released
C23_Witness ==
    /\ lastOp = "unlock" /\ ~isLocked /\ hintShown /\ lockRequested

\* C24: the frame that applies a latched jump subtracts walkAcceleration * 0.1
\* from velocity.z exactly when forward was held at the grounded Space key-down
\* that latched it, whatever the forward key did between the key-down and the
\* frame; no later frame of the jump subtracts it again.
C24_BoostIsSnapshot ==
    jump.phase \in {"air", "landed"} =>
        jump.dz = IF jump.forward THEN -Mul(options.config.walkAcceleration, 1)
                  ELSE 0

\* forward held at the key-down and released before the frame of the jump
C24_Witness ==
    /\ jump.phase = "air" /\ lastOp = "frame"
    /\ jump.forward /\ ~movement.moveState.forward
    /\ jump.dz = -8

\* C25 (as claimed): in the controller whose handler takes config, a Space
\* key-down of a grounded player who holds forward sets velocity.y to jumpSpeed
\* and subtracts walkAcceleration * 0.1 from velocity.z.
C25_ImmediateJumpKeepsMomentum ==
    [][(/\ KeyEventImmediate("Space", TRUE)
        /\ movement.isGrounded /\ movement.moveState.forward)
          => (/\ movement'.velocity.y = options.config.jumpSpeed
              /\ movement'.velocity.z =
                    movement.velocity.z - Mul(options.config.walkAcceleration, 1))]_vars

\* the height the flat branch of the ground clamp falls back to
FallbackGround(opts) == Nullish(TerrainBounds(opts).min, opts.config.floorLevel)

\* C26 (as claimed): after every locked update camera.y >= h + playerHeight,
\* h the terrain sample at the camera's (x, z) when it is finite and the
\* fallback bounds height otherwise, a sampler that yields a non-finite sample
\* included.
C26_NeverBelowGround ==
    lastOp \in {"frame", "jump"} =>
        LET d == options.terrainData
            sampled == HasSampler(d) /\ IsFinite(TerrainSampler(d, camera.x, camera.z))
            h == IF sampled THEN TerrainSampler(d, camera.x, camera.z)
                 ELSE FallbackGround(options)
        IN  camera.y >= h + options.config.playerHeight

\* the ground height the clamp of a frame compares with: the terrain sample at
\* the camera's (x, z) when there is a sampler, terrainBounds.min otherwise
ClampGround(opts, cam) ==
    IF HasSampler(opts.terrainData)
    THEN TerrainSampler(opts.terrainData, cam.x, cam.z)
    ELSE FallbackGround(opts)

\* C27 (as claimed): after every locked update, isGrounded = true implies
\* velocity.y = 0 and camera.y = ground height + playerHeight.
C27_GroundedMeansArrested ==
    (lastOp \in {"frame", "jump"} /\ movement.isGrounded) =>
        /\ movement.velocity.y = 0
        /\ camera.y = ClampGround(options, camera) + options.config.playerHeight

\* C27 (amended): after every locked update, isGrounded = true implies
\* camera.y = ground height + playerHeight and velocity.y >= 0; velocity.y is 0
\* in the flat branch, while on sampled terrain only a downward velocity is
\* zeroed: an upward one (a jump in a frame that leaves the player on the
\* ground) stays.
C27_GroundedMeansNotFalling ==
    (lastOp \in {"frame", "jump"} /\ movement.isGrounded) =>
        /\ camera.y = ClampGround(options, camera) + options.config.playerHeight
        /\ movement.velocity.y >= 0
        /\ ~HasSampler(options.terrainData) => movement.velocity.y = 0

\* the frame of a jump, of no duration, on sampled terrain
C27_Witness ==
    /\ lastOp = "jump" /\ movement.isGrounded /\ HasSampler(options.terrainData)
    /\ movement.velocity.y = options.config.jumpSpeed

\* C28 (as claimed): in the host's loop a frame that applies a jump ends with
\* canJump = false, and canJump becomes true again only in a frame that reads
\* a vertical velocity of the body below 0.05 in magnitude.
C28_JumpRearmedOnGround ==
    /\ [](host.op = "jump" => ~host.flags.canJump)
    /\ [][(~host.flags.canJump /\ host'.flags.canJump)
             => Abs(host.velocity.y) < JumpRest]_vars

\* C29 (as claimed): after an unlock and with no key event since, the first
\* frame of the host with the lock engaged again asks the body for zero
\* horizontal velocity.
C29_NoHeldKeyAcrossUnlock ==
    (run.kind = "rest" /\ run.n = 1 /\ host.op \in {"frame", "jump"}) =>
        host.written = [x |-> 0, z |-> 0]

\* a locked update of a player who has landed from a jump that left the
\* ground, with no jump latched
FrameAfterLanding ==
    /\ jump.phase = "landed" /\ jump.flown
    /\ movement.isGrounded /\ ~movement.pendingJump
    /\ isLocked /\ lastOp' = "frame"

\* C30 (as claimed): with the lock held and update called again and again with
\* a delta > 0, a player in the air after a jump reaches a frame that ends with
\* isGrounded = true, and every later update with no jump latched leaves the
\* player grounded.
C30_JumpLandsAndStays ==
    /\ (jump.phase = "air") ~> (movement.isGrounded \/ ~isLocked)
    /\ [][FrameAfterLanding => movement'.isGrounded]_vars

\* C30 (amended): the jump always lands as claimed; the player then stays
\* grounded through every later update with no jump latched in the flat world
\* (no terrain sampler).
C30_JumpLandsAndStaysOnFlatGround ==
    /\ (jump.phase = "air") ~> (movement.isGrounded \/ ~isLocked)
    /\ [][(FrameAfterLanding /\ ~HasSampler(options.terrainData))
             => movement'.isGrounded]_vars

\* C30 witness: a second update has ended on the ground after a jump that left
\* the flat ground and came down again.
C30_Witness ==
    /\ isLocked /\ ~HasSampler(options.terrainData)
    /\ jump.phase = "landed" /\ jump.flown /\ jump.dz # 0
    /\ movement.isGrounded /\ lastOp = "frame"

====
